---- MODULE Spec2Model ----
(***************************************************************************)
(* Viewport and selection state of the pik terminal dashboard:             *)
(*   - VerticalScroll and calc_scroll_top (src/tui/rendering.rs and the    *)
(*     identical copy in src/popups/mod.rs),                               *)
(*   - the process-table selection and the details pane of Tui.            *)
(*   - the message popup MsgPopup with the VerticalScroll it owns.         *)
(* Specifications over one set of variables: SpecScroll drives one         *)
(* VerticalScroll, SpecArea drives it with the ranges of Scenario C,       *)
(* SpecFixed drives it while content length and visible height stay fixed, *)
(* SpecCalc drives calc_scroll_top as a pure function, SpecTui drives the  *)
(* Tui methods and SpecPopup drives MsgPopup.                              *)
(***************************************************************************)
EXTENDS Integers, Sequences, FiniteSets, TLC

\* ------------------------------------------------------------------------
\* Bounds of the model
\* ------------------------------------------------------------------------
\* largest content length, selection, visible height and range end handed
\* to a VerticalScroll
MaxLines == 3
\* largest value handed to calc_scroll_top in SpecCalc (besides Scenario A/B)
MaxCalc == 5
\* largest number of rows of the process table
MaxItems == 5
\* largest step of select_next_row / select_previous_row
MaxStep == 5
\* largest width of the details area
MaxWidth == 4
\* largest number of characters of Process::args
MaxArgs == 3
\* cap of process_details_scroll_offset (a u16 that saturates at 65535)
MaxOffset == 4
\* largest number of lines of a popup message
MaxBodyLines == 2
\* largest small frame height handed to MsgPopup::draw
MaxFrameHeight == 4
\* usize::MAX scaled to the model: every length and step drawn is far below
\* it, as a process count is far below 2^64
UsizeMax == 1023

\* ------------------------------------------------------------------------
\* Program constants
\* ------------------------------------------------------------------------
\* u16 arithmetic is modulo 2^16
U16Modulus == 65536
\* Constraint::Max(7): the details area is at most 7 rows high
DetailsMaxHeight == 7
\* the two border rows / columns subtracted from the details area
DetailsBorder == 2
\* the summary and command lines of the details pane
DetailsHeaderLines == 2

\* the popup geometry
POPUP_HEIGHT == 25
BORDER_WIDTH == 2
MINIMUM_WIDTH == 60

\* ------------------------------------------------------------------------
\* Option<usize>
\* ------------------------------------------------------------------------
None == <<>>
Some(i) == <<i>>
IsSome(o) == o # <<>>
unwrap_or(o, d) == IF o = <<>> THEN d ELSE o[1]

\* ------------------------------------------------------------------------
\* usize helpers
\* ------------------------------------------------------------------------
Min(a, b) == IF a < b THEN a ELSE b
Max(a, b) == IF a > b THEN a ELSE b
saturating_sub(a, b) == IF a >= b THEN a - b ELSE 0
saturating_add(a, b) == Min(a + b, UsizeMax)
wrapping_sub(a, b) == (a - b) % (UsizeMax + 1)
clamp(x, lo, hi) == IF x < lo THEN lo ELSE IF x > hi THEN hi ELSE x

VARIABLES
    \* VerticalScroll
    top, max_top, vs_last,
    \* the content length and visible height of SpecFixed
    fixed,
    \* calc_scroll_top as a pure function
    c_top, c_height, c_sel, c_max, c_out, c_pc,
    \* Tui
    process_table_selected, process_table_number_of_items,
    process_table_scroll_position, process_table_scroll_content_length,
    process_details_scroll_offset, process_details_number_of_lines,
    overflow_checks, aborted, tui_last,
    \* MsgPopup
    title, msg, visible, scroll_top, scroll_max_top, popup_last

vsVars == <<top, max_top, vs_last>>
calcVars == <<c_top, c_height, c_sel, c_max, c_out, c_pc>>
tuiVars == <<process_table_selected, process_table_number_of_items,
             process_table_scroll_position, process_table_scroll_content_length,
             process_details_scroll_offset, process_details_number_of_lines,
             overflow_checks, aborted, tui_last>>
popupVars == <<title, msg, visible, scroll_top, scroll_max_top, popup_last>>
vars == <<vsVars, fixed, calcVars, tuiVars, popupVars>>

\* ------------------------------------------------------------------------
\* calc_scroll_top
\* ------------------------------------------------------------------------
\* calc_scroll_top scrolling down as soon as the selection is on the last
\* visible line
calc_scroll_top_early(current_top, height_in_lines, selection, selection_max) ==
    IF height_in_lines = 0 THEN 0
    ELSE IF selection_max <= height_in_lines THEN 0
    ELSE IF current_top + height_in_lines <= selection + 1
         THEN saturating_sub(selection + 1, height_in_lines) + 1
    ELSE IF current_top > selection THEN selection
    ELSE current_top

\* calc_scroll_top without the + 1 of the scroll down
calc_scroll_top_short(current_top, height_in_lines, selection, selection_max) ==
    IF height_in_lines = 0 THEN 0
    ELSE IF selection_max <= height_in_lines THEN 0
    ELSE IF current_top + height_in_lines <= selection
         THEN saturating_sub(selection, height_in_lines)
    ELSE IF current_top > selection THEN selection
    ELSE current_top

\* calc_scroll_top without the scroll up to a selection above the window
calc_scroll_top_noup(current_top, height_in_lines, selection, selection_max) ==
    IF height_in_lines = 0 THEN 0
    ELSE IF selection_max <= height_in_lines THEN 0
    ELSE IF current_top + height_in_lines <= selection
         THEN saturating_sub(selection, height_in_lines) + 1
    ELSE current_top

calc_scroll_top(current_top, height_in_lines, selection, selection_max) ==
    IF height_in_lines = 0 THEN 0
    ELSE IF selection_max <= height_in_lines THEN 0
    ELSE IF current_top + height_in_lines <= selection
         THEN saturating_sub(selection, height_in_lines) + 1
    ELSE IF current_top > selection THEN selection
    ELSE current_top

\* ------------------------------------------------------------------------
\* VerticalScroll
\* ------------------------------------------------------------------------
ScrollType == {"Up", "Down", "Home", "End", "PageUp", "PageDown"}

\* the candidate of move_top before the clamp
move_top_candidate(old, max, move_type) ==
    CASE move_type = "Down" -> saturating_add(old, 1)
      [] move_type = "Up"   -> saturating_sub(old, 1)
      [] move_type = "Home" -> 0
      [] move_type = "End"  -> max
      [] OTHER              -> old

\* move_top without the clamp into [0, max_top]
new_scroll_top_noclamp(old, max, move_type) ==
    move_top_candidate(old, max, move_type)

new_scroll_top(old, max, move_type) ==
    clamp(move_top_candidate(old, max, move_type), 0, max)

\* max_top taken to be the content length
update_max_top_nosub(selection_max, visual_height) ==
    IF visual_height = 0 THEN 0 ELSE selection_max

\* max_top as update computes it
update_max_top(selection_max, visual_height) ==
    IF visual_height = 0 THEN 0
    ELSE saturating_sub(selection_max, visual_height)

\* move_area_to_visible without the scroll up to a hidden start
move_area_top_nostart(t, mx, height, start, end) ==
    LET bottom == t + height IN
    IF end > bottom /\ start > t
    THEN LET avail_space == saturating_sub(start, t)
             diff == Min(avail_space, saturating_sub(end, bottom))
         IN  Min(mx, saturating_add(t, diff))
    ELSE t

\* move_area_to_visible without the clamp to max_top
move_area_top_noclamp(t, mx, height, start, end) ==
    LET bottom == t + height IN
    IF start < t THEN start
    ELSE IF end > bottom /\ start > t
         THEN LET avail_space == saturating_sub(start, t)
                  diff == Min(avail_space, saturating_sub(end, bottom))
              IN  saturating_add(t, diff)
    ELSE t

\* move_area_to_visible advancing by the hidden part of the end alone
move_area_top_noavail(t, mx, height, start, end) ==
    LET bottom == t + height IN
    IF start < t THEN start
    ELSE IF end > bottom /\ start > t
         THEN Min(mx, saturating_add(t, saturating_sub(end, bottom)))
    ELSE t

\* top as move_area_to_visible leaves it
move_area_top(t, mx, height, start, end) ==
    LET bottom == t + height IN
    IF start < t THEN start
    ELSE IF end > bottom /\ start > t
         THEN LET avail_space == saturating_sub(start, t)
                  diff == Min(avail_space, saturating_sub(end, bottom))
              IN  Min(mx, saturating_add(t, diff))
    ELSE t

VSLast(op, arg, ret) ==
    [op |-> op, arg |-> arg, pre_top |-> top, pre_max |-> max_top,
     ret |-> ret,
     \* the move type of the call before, when that was a move_top
     before |-> IF vs_last.op = "move_top" THEN vs_last.arg ELSE <<>>]

VSInit ==
    /\ top = 0
    /\ max_top = 0
    /\ vs_last = [op |-> "new", arg |-> <<>>, pre_top |-> 0, pre_max |-> 0,
                  ret |-> <<>>, before |-> <<>>]

reset ==
    /\ top' = 0
    /\ max_top' = max_top
    /\ vs_last' = VSLast("reset", <<>>, <<>>)
    /\ UNCHANGED <<fixed, calcVars, tuiVars, popupVars>>

move_top(move_type) ==
    LET new == new_scroll_top(top, max_top, move_type) IN
    /\ top' = IF new = top THEN top ELSE new
    /\ max_top' = max_top
    /\ vs_last' = VSLast("move_top", <<move_type>>, <<new # top>>)
    /\ UNCHANGED <<fixed, calcVars, tuiVars, popupVars>>

move_area_to_visible(height, start, end) ==
    /\ top' = move_area_top(top, max_top, height, start, end)
    /\ max_top' = max_top
    /\ vs_last' = VSLast("move_area_to_visible", <<height, start, end>>, <<>>)
    /\ UNCHANGED <<fixed, calcVars, tuiVars, popupVars>>

update(selection, selection_max, visual_height) ==
    LET new_top == calc_scroll_top(top, visual_height, selection, selection_max) IN
    /\ top' = new_top
    /\ max_top' = update_max_top(selection_max, visual_height)
    /\ vs_last' = VSLast("update", <<selection, selection_max, visual_height>>,
                         <<new_top>>)
    /\ UNCHANGED <<fixed, calcVars, tuiVars, popupVars>>

update_no_selection(line_count, visual_height) ==
    LET new_top == calc_scroll_top(top, visual_height, top, line_count) IN
    /\ top' = new_top
    /\ max_top' = update_max_top(line_count, visual_height)
    /\ vs_last' = VSLast("update_no_selection", <<line_count, visual_height>>,
                         <<new_top>>)
    /\ UNCHANGED <<fixed, calcVars, tuiVars, popupVars>>

\* ------------------------------------------------------------------------
\* calc_scroll_top driven as a pure function: the scroll follows a selection
\* that moves while content length and visible height change
\* ------------------------------------------------------------------------
CalcValues == 0..MaxCalc
\* Scenario A and B of the specification: content 100, height 10,
\* selection 45 and then 5
ScenarioCalls == {<<10, 45, 100>>, <<10, 5, 100>>}
CalcCalls == (CalcValues \X CalcValues \X CalcValues) \cup ScenarioCalls

CalcInit ==
    /\ c_top = 0
    /\ c_height = 0
    /\ c_sel = 0
    /\ c_max = 0
    /\ c_out = 0
    /\ c_pc = "idle"

\* the caller picks the arguments; current_top is the top it holds
calc_call(height_in_lines, selection, selection_max) ==
    /\ c_pc \in {"idle", "returned"}
    /\ c_top' = IF c_pc = "returned" THEN c_out ELSE c_top
    /\ c_height' = height_in_lines
    /\ c_sel' = selection
    /\ c_max' = selection_max
    /\ c_out' = c_out
    /\ c_pc' = "called"
    /\ UNCHANGED <<vsVars, fixed, tuiVars, popupVars>>

calc_return ==
    /\ c_pc = "called"
    /\ c_out' = calc_scroll_top(c_top, c_height, c_sel, c_max)
    /\ c_pc' = "returned"
    /\ UNCHANGED <<c_top, c_height, c_sel, c_max>>
    /\ UNCHANGED <<vsVars, fixed, tuiVars, popupVars>>

\* ------------------------------------------------------------------------
\* Tui: process table selection and details pane
\* ------------------------------------------------------------------------
\* i + step_size of select_next_row, modulo the width of usize
usize_add(a, b) == (a + b) % (UsizeMax + 1)
usize_add_overflows(a, b) == a + b > UsizeMax

\* select_next_row without the wrap to the first row
next_row_index_nowrap(selected, step_size, number_of_items) ==
    IF selected = None THEN None
    ELSE Some(usize_add(selected[1], step_size))

\* select_next_row wrapping modulo the item count
next_row_index_modulo(selected, step_size, number_of_items) ==
    IF selected = None THEN None
    ELSE Some(usize_add(selected[1], step_size) % number_of_items)

next_row_index(selected, step_size, number_of_items) ==
    IF selected = None THEN None
    ELSE LET i == usize_add(selected[1], step_size) IN
         Some(IF i >= number_of_items THEN 0 ELSE i)

\* select_previous_row with a saturating subtraction
previous_index_saturating(selected, step_size, number_of_items) ==
    IF selected = None THEN None
    ELSE LET i == saturating_sub(selected[1], step_size) IN
         Some(clamp(i, 0, saturating_sub(number_of_items, 1)))

previous_index(selected, step_size, number_of_items) ==
    IF selected = None THEN None
    ELSE LET i == wrapping_sub(selected[1], step_size) IN
         Some(clamp(i, 0, saturating_sub(number_of_items, 1)))

\* TableState::select(Some(0)) / select(None) of the list replacement
replaced_selection_always_first(number_of_items) == Some(0)

replaced_selection(number_of_items) ==
    IF number_of_items = 0 THEN None ELSE Some(0)

\* u16 subtraction: the wrapped value, and whether it overflows
u16_sub(a, b) == (a - b) % U16Modulus
u16_sub_overflows(a, b) == a < b
u16_add(a, b) == (a + b) % U16Modulus
u16_add_overflows(a, b) == a + b >= U16Modulus
u16_saturating_add(a, b) == Min(a + b, U16Modulus - 1)

\* search_results.nth(selected): the selected process, when there is one
has_selected_process(selected, number_of_items) ==
    IsSome(selected) /\ selected[1] < number_of_items

\* the quotient rounded up
args_quotient_ceil(args_chars, content_width) ==
    ((args_chars % U16Modulus) + content_width - 1) \div content_width

\* the quotient of update_process_details_number_of_lines
args_quotient(args_chars, content_width) ==
    (args_chars % U16Modulus) \div content_width

TuiLast(op, arg) ==
    [op |-> op, arg |-> arg,
     pre_selected |-> process_table_selected,
     pre_count |-> process_table_number_of_items,
     pre_offset |-> process_details_scroll_offset,
     \* the list is empty since an update_process_table_number_of_items(0)
     emptied |-> IF op = "update_process_table_number_of_items"
                 THEN arg[1] = 0 ELSE tui_last.emptied]

TuiInit ==
    /\ process_table_selected = None
    /\ process_table_number_of_items = 0
    /\ process_table_scroll_position = 0
    /\ process_table_scroll_content_length = 0
    /\ process_details_scroll_offset = 0
    /\ process_details_number_of_lines = 0
    /\ overflow_checks \in BOOLEAN
    /\ aborted = FALSE
    /\ tui_last = [op |-> "new", arg |-> <<>>, pre_selected |-> None,
                   pre_count |-> 0, pre_offset |-> 0, emptied |-> FALSE]

\* a panic: the program stops, no field is written
Abort(op, arg) ==
    /\ aborted' = TRUE
    /\ tui_last' = TuiLast(op, arg)
    /\ UNCHANGED <<process_table_selected, process_table_number_of_items,
                   process_table_scroll_position,
                   process_table_scroll_content_length,
                   process_details_scroll_offset,
                   process_details_number_of_lines, overflow_checks>>

select_next_row(step_size) ==
    /\ ~aborted
    /\ UNCHANGED <<vsVars, fixed, calcVars, popupVars>>
    /\ IF /\ overflow_checks
          /\ IsSome(process_table_selected)
          /\ usize_add_overflows(process_table_selected[1], step_size)
       THEN Abort("select_next_row", <<step_size>>)
       ELSE LET idx == next_row_index(process_table_selected, step_size,
                                      process_table_number_of_items) IN
            /\ process_table_selected' = idx
            /\ process_table_scroll_position' = unwrap_or(idx, 0)
            /\ process_details_scroll_offset' = 0
            /\ tui_last' = TuiLast("select_next_row", <<step_size>>)
            /\ UNCHANGED <<process_table_number_of_items,
                           process_table_scroll_content_length,
                           process_details_number_of_lines,
                           overflow_checks, aborted>>

select_previous_row(step_size) ==
    /\ ~aborted
    /\ UNCHANGED <<vsVars, fixed, calcVars, popupVars>>
    /\ LET idx == previous_index(process_table_selected, step_size,
                                 process_table_number_of_items) IN
       /\ process_table_selected' = idx
       /\ process_table_scroll_position' = unwrap_or(idx, 0)
       /\ process_details_scroll_offset' = 0
       /\ tui_last' = TuiLast("select_previous_row", <<step_size>>)
       /\ UNCHANGED <<process_table_number_of_items,
                      process_table_scroll_content_length,
                      process_details_number_of_lines,
                      overflow_checks, aborted>>

update_process_table_number_of_items(number_of_items) ==
    /\ ~aborted
    /\ UNCHANGED <<vsVars, fixed, calcVars, popupVars>>
    /\ process_table_number_of_items' = number_of_items
    /\ process_table_scroll_content_length' = saturating_sub(number_of_items, 1)
    /\ process_table_selected' = replaced_selection(number_of_items)
    /\ tui_last' = TuiLast("update_process_table_number_of_items",
                           <<number_of_items>>)
    /\ UNCHANGED <<process_table_scroll_position,
                   process_details_scroll_offset,
                   process_details_number_of_lines, overflow_checks, aborted>>

\* height is the height of rects[2] of layout_rects
process_details_down(height) ==
    /\ ~aborted
    /\ UNCHANGED <<vsVars, fixed, calcVars, popupVars>>
    /\ process_details_scroll_offset < MaxOffset
    /\ IF overflow_checks
          /\ (\/ u16_sub_overflows(height, DetailsBorder)
              \/ u16_sub_overflows(process_details_number_of_lines,
                                   process_details_scroll_offset))
       THEN Abort("process_details_down", <<height>>)
       ELSE LET area_content_height == u16_sub(height, DetailsBorder)
                content_scrolled ==
                    u16_sub(process_details_number_of_lines,
                            process_details_scroll_offset)
            IN
            /\ process_details_scroll_offset' =
                   IF content_scrolled > area_content_height
                   THEN u16_saturating_add(process_details_scroll_offset, 1)
                   ELSE process_details_scroll_offset
            /\ tui_last' = TuiLast("process_details_down", <<height>>)
            /\ UNCHANGED <<process_table_selected,
                           process_table_number_of_items,
                           process_table_scroll_position,
                           process_table_scroll_content_length,
                           process_details_number_of_lines,
                           overflow_checks, aborted>>

process_details_up ==
    /\ ~aborted
    /\ UNCHANGED <<vsVars, fixed, calcVars, popupVars>>
    /\ process_details_scroll_offset' =
           saturating_sub(process_details_scroll_offset, 1)
    /\ tui_last' = TuiLast("process_details_up", <<>>)
    /\ UNCHANGED <<process_table_selected, process_table_number_of_items,
                   process_table_scroll_position,
                   process_table_scroll_content_length,
                   process_details_number_of_lines, overflow_checks, aborted>>

\* render_ui -> render_process_details -> update_process_details_number_of_lines
\* width and height are those of rects[2], args_chars is
\* process.args.chars().count()
render_ui(width, height, args_chars) ==
    /\ ~aborted
    /\ UNCHANGED <<vsVars, fixed, calcVars, popupVars>>
    /\ LET has_process == has_selected_process(process_table_selected,
                                               process_table_number_of_items)
           content_width == u16_sub(width, DetailsBorder)
       IN
       IF \/ overflow_checks /\ u16_sub_overflows(width, DetailsBorder)
          \/ has_process /\ content_width = 0
       THEN Abort("render_ui", <<width, height, args_chars>>)
       ELSE LET q == IF has_process
                     THEN args_quotient(args_chars, content_width) ELSE 0
            IN
            IF /\ overflow_checks
               /\ has_process
               /\ u16_add_overflows(q, 1 + DetailsHeaderLines)
            THEN Abort("render_ui", <<width, height, args_chars>>)
            ELSE /\ process_details_number_of_lines' =
                        IF has_process
                        THEN u16_add(u16_add(q, 1), DetailsHeaderLines)
                        ELSE 1
                 /\ tui_last' = TuiLast("render_ui", <<width, height, args_chars>>)
                 /\ UNCHANGED <<process_table_selected,
                                process_table_number_of_items,
                                process_table_scroll_position,
                                process_table_scroll_content_length,
                                process_details_scroll_offset,
                                overflow_checks, aborted>>

\* ------------------------------------------------------------------------
\* MsgPopup
\* ------------------------------------------------------------------------
\* A message is the sequence of the lengths of its lines; a line is one
\* unbroken word, short or longer than the popup is wide.
LineLengths == {5, 70}
Messages ==
    UNION {[1..n -> LineLengths] : n \in 0..MaxBodyLines}
\* frame sizes: a narrow and a wide terminal, low terminals and a high one
FrameWidths == {40, 80}
FrameHeights == (0..MaxFrameHeight) \cup {30}
\* the events of MsgPopup::event: the three keys it matches, any other key
\* and an event that is no key
Events == {"enter", "popup_down", "popup_up", "other_key", "not_key"}

RECURSIVE max_line_len(_)
\* msg.lines().map(str::len).max().unwrap_or(0)
max_line_len(m) ==
    IF m = <<>> THEN 0 ELSE Max(Head(m), max_line_len(Tail(m)))

\* the lines one line of the message wraps into: a word longer than the
\* width is broken, an empty or fitting line stays one line
wrapped_line(len, width) ==
    IF len <= width THEN 1 ELSE (len + width - 1) \div width

RECURSIVE wrapped_line_count(_, _)
\* wrapped_msg.lines().count() of bwrap::wrap_maybrk!(msg, width)
wrapped_line_count(m, width) ==
    IF m = <<>> THEN 0
    ELSE wrapped_line(Head(m), width) + wrapped_line_count(Tail(m), width)

\* area.width of centered_rect_absolute(width, POPUP_HEIGHT, f.area())
popup_area_width(m, frame_width) ==
    LET max_width == Max(frame_width, MINIMUM_WIDTH)
        width == clamp(saturating_add(max_line_len(m), BORDER_WIDTH),
                       MINIMUM_WIDTH, max_width)
    IN  Min(width, frame_width)

\* line_num of draw
popup_line_num(m, frame_width) ==
    wrapped_line_count(m, saturating_sub(popup_area_width(m, frame_width),
                                         BORDER_WIDTH))

\* height of draw
popup_height(frame_height) ==
    Min(saturating_sub(POPUP_HEIGHT, BORDER_WIDTH),
        saturating_sub(frame_height, BORDER_WIDTH))

\* set_new_msg keeping the scroll where it was
set_new_msg_top_kept(t) == t

\* scroll.reset() of set_new_msg
set_new_msg_top(t) == 0

\* event without the test of visible
event_result_ungated(vis, t, mx, ev) ==
    IF ev = "enter" THEN [visible |-> FALSE, top |-> t]
    ELSE IF ev = "popup_down"
         THEN [visible |-> vis, top |-> new_scroll_top(t, mx, "Down")]
    ELSE IF ev = "popup_up"
         THEN [visible |-> vis, top |-> new_scroll_top(t, mx, "Up")]
    ELSE [visible |-> vis, top |-> t]

\* visible and scroll top as event leaves them
event_result(vis, t, mx, ev) ==
    IF vis
    THEN IF ev = "enter" THEN [visible |-> FALSE, top |-> t]
         ELSE IF ev = "popup_down"
              THEN [visible |-> vis, top |-> new_scroll_top(t, mx, "Down")]
         ELSE IF ev = "popup_up"
              THEN [visible |-> vis, top |-> new_scroll_top(t, mx, "Up")]
         ELSE [visible |-> vis, top |-> t]
    ELSE [visible |-> vis, top |-> t]

PopupLast(op, arg) ==
    [op |-> op, arg |-> arg, pre_top |-> scroll_top, pre_visible |-> visible,
     \* f.area() of the last draw that laid the popup out
     frame |-> IF op = "draw" /\ visible THEN arg ELSE popup_last.frame]

PopupInit ==
    /\ title = ""
    /\ msg = <<>>
    /\ visible = FALSE
    /\ scroll_top = 0
    /\ scroll_max_top = 0
    /\ popup_last = [op |-> "new", arg |-> <<>>, pre_top |-> 0,
                     pre_visible |-> FALSE, frame |-> <<>>]

set_new_msg(op, new_msg, new_title) ==
    /\ title' = new_title
    /\ msg' = new_msg
    /\ scroll_top' = set_new_msg_top(scroll_top)
    /\ scroll_max_top' = scroll_max_top
    /\ visible' = TRUE
    /\ popup_last' = PopupLast(op, <<new_msg>>)
    /\ UNCHANGED <<vsVars, fixed, calcVars, tuiVars>>

msg_title_error == "Error"
msg_title_key_bindings == "Keybindings"

show_error(new_msg) == set_new_msg("show_error", new_msg, msg_title_error)

show_key_bindings(new_msg) ==
    set_new_msg("show_key_bindings", new_msg, msg_title_key_bindings)

event(ev) ==
    LET r == event_result(visible, scroll_top, scroll_max_top, ev) IN
    /\ visible' = r.visible
    /\ scroll_top' = r.top
    /\ popup_last' = PopupLast("event", <<ev>>)
    /\ UNCHANGED <<title, msg, scroll_max_top>>
    /\ UNCHANGED <<vsVars, fixed, calcVars, tuiVars>>

draw(frame_width, frame_height) ==
    /\ popup_last' = PopupLast("draw", <<frame_width, frame_height>>)
    /\ UNCHANGED <<title, msg, visible>>
    /\ UNCHANGED <<vsVars, fixed, calcVars, tuiVars>>
    /\ IF ~visible
       THEN UNCHANGED <<scroll_top, scroll_max_top>>
       ELSE LET line_num == popup_line_num(msg, frame_width)
                height == popup_height(frame_height)
            IN
            \* scroll.update_no_selection(line_num, height)
            /\ scroll_top' = calc_scroll_top(scroll_top, height, scroll_top,
                                             line_num)
            /\ scroll_max_top' = update_max_top(line_num, height)

\* ------------------------------------------------------------------------
\* Specifications
\* ------------------------------------------------------------------------
Lines == 0..MaxLines

\* SpecFixed alone draws the fixed content length and visible height
NotFixed == <<0, 0>>

Init ==
    /\ VSInit /\ CalcInit /\ TuiInit /\ PopupInit
    /\ overflow_checks = FALSE
    /\ fixed = NotFixed

NextScroll ==
    \/ reset
    \/ \E t \in ScrollType : move_top(t)
    \/ \E h \in Lines, s \in Lines, e \in Lines : move_area_to_visible(h, s, e)
    \/ \E s \in Lines, m \in Lines, h \in Lines : update(s, m, h)
    \/ \E n \in Lines, h \in Lines : update_no_selection(n, h)

SpecScroll == Init /\ [][NextScroll]_vars

NextCalc ==
    \/ \E c \in CalcCalls : calc_call(c[1], c[2], c[3])
    \/ calc_return

SpecCalc == Init /\ [][NextCalc]_vars

\* the heights of the details area at a render: squeezed away, borders alone
\* and full
RenderHeights == {0, DetailsBorder, DetailsMaxHeight}

InitTui == VSInit /\ CalcInit /\ TuiInit /\ PopupInit /\ fixed = NotFixed

NextTui ==
    \/ \E n \in 0..MaxItems : update_process_table_number_of_items(n)
    \/ \E step \in 0..MaxStep : select_next_row(step)
    \/ \E step \in 0..MaxStep : select_previous_row(step)
    \/ \E h \in 0..DetailsMaxHeight : process_details_down(h)
    \/ process_details_up
    \/ \E w \in 0..MaxWidth, h \in RenderHeights, a \in 0..MaxArgs :
           render_ui(w, h, a)

SpecTui == InitTui /\ [][NextTui]_vars

\* Scenario C: content 25 and height 5 give max_top = 20; ranges up to 9
ScenarioUpdates == {<<25, 5>>}
ScenarioAreas == {5} \X (0..9) \X (0..9)

NextArea ==
    \/ \E u \in ScenarioUpdates : update_no_selection(u[1], u[2])
    \/ \E t \in ScrollType : move_top(t)
    \/ \E a \in ScenarioAreas : move_area_to_visible(a[1], a[2], a[3])

SpecArea == Init /\ [][NextArea]_vars

\* SpecFixed: every update is handed the same content length fixed[1] and
\* visible height fixed[2], and a selection inside the content
InitFixed ==
    /\ VSInit /\ CalcInit /\ TuiInit /\ PopupInit
    /\ overflow_checks = FALSE
    /\ fixed \in Lines \X Lines

update_fixed(selection) ==
    /\ selection < fixed[1]
    /\ update(selection, fixed[1], fixed[2])

update_no_selection_fixed ==
    update_no_selection(fixed[1], fixed[2])

NextFixed ==
    \/ \E s \in Lines : update_fixed(s)
    \/ update_no_selection_fixed
    \/ reset
    \/ \E t \in ScrollType : move_top(t)
    \/ \E h \in Lines, s \in Lines, e \in Lines : move_area_to_visible(h, s, e)

SpecFixed == InitFixed /\ [][NextFixed]_vars

NextPopup ==
    \/ \E m \in Messages : show_error(m)
    \/ \E m \in Messages : show_key_bindings(m)
    \/ \E ev \in Events : event(ev)
    \/ \E w \in FrameWidths, h \in FrameHeights : draw(w, h)

SpecPopup == Init /\ [][NextPopup]_vars

TypeOK ==
    /\ top \in Nat /\ max_top \in Nat
    /\ process_table_number_of_items \in 0..MaxItems
    /\ process_details_scroll_offset \in 0..MaxOffset
    /\ process_details_number_of_lines \in 0..(U16Modulus - 1)

\* ------------------------------------------------------------------------
\* Properties
\* ------------------------------------------------------------------------

\* C1: after every VerticalScroll call, 0 <= top <= max_top.
C1_TopWithinMaxTop ==
    /\ 0 <= top
    /\ top <= max_top

\* C2: the selection is None exactly when the item count is 0, and otherwise
\* 0 <= selected < count.
C2_SelectionValid ==
    /\ (process_table_selected = None) <=> (process_table_number_of_items = 0)
    /\ IsSome(process_table_selected) =>
           /\ 0 <= process_table_selected[1]
           /\ process_table_selected[1] < process_table_number_of_items

\* a select_next_row that wrapped from the last row to the first
C2_Witness ==
    /\ tui_last.op = "select_next_row"
    /\ tui_last.pre_count > 1
    /\ tui_last.pre_selected = Some(tui_last.pre_count - 1)
    /\ tui_last.arg[1] > 0
    /\ process_table_selected = Some(0)

\* a select_previous_row that has run on a selected row
PreviousRowActed ==
    /\ tui_last.op = "select_previous_row"
    /\ IsSome(tui_last.pre_selected)
    /\ ~aborted

C4_NextWrapsToFirst ==
    (/\ tui_last.op = "select_next_row"
     /\ IsSome(tui_last.pre_selected)
     /\ ~aborted) =>
        process_table_selected =
            Some(IF tui_last.pre_selected[1] + tui_last.arg[1] < tui_last.pre_count
                 THEN tui_last.pre_selected[1] + tui_last.arg[1]
                 ELSE 0)

\* a 5-element list at index 3 with step 4 yields index 0
C4_Witness ==
    /\ tui_last.op = "select_next_row"
    /\ tui_last.pre_count = 5
    /\ tui_last.pre_selected = Some(3)
    /\ tui_last.arg = <<4>>
    /\ process_table_selected = Some(0)

\* C5: after update_process_table_number_of_items(0) the selection is None and
\* every select_next_row / select_previous_row changes nothing: selection,
\* item count and details scroll offset stay as they were.
C5_EmptyListNoOp ==
    /\ (tui_last.op = "update_process_table_number_of_items"
            /\ tui_last.arg = <<0>>) => process_table_selected = None
    /\ (/\ tui_last.op \in {"select_next_row", "select_previous_row"}
        /\ tui_last.emptied) =>
           /\ process_table_selected = None
           /\ process_table_number_of_items = tui_last.pre_count
           /\ process_details_scroll_offset = tui_last.pre_offset

\* C6: update_process_table_number_of_items(n) sets count = n and selects
\* row 0 when n > 0 and nothing when n = 0, whatever was selected before.
C6_ReplaceList ==
    tui_last.op = "update_process_table_number_of_items" =>
        /\ process_table_number_of_items = tui_last.arg[1]
        /\ process_table_selected =
               (IF tui_last.arg[1] > 0 THEN Some(0) ELSE None)

\* a replacement by an empty list while a row beyond the first was selected
C6_Witness ==
    /\ tui_last.op = "update_process_table_number_of_items"
    /\ tui_last.arg = <<0>>
    /\ IsSome(tui_last.pre_selected)
    /\ tui_last.pre_selected[1] > 0
    /\ process_table_selected = None

\* the selection lies in the window [current_top, current_top + height)
SelectionInWindow ==
    /\ c_pc = "returned"
    /\ c_top <= c_sel
    /\ c_sel < c_top + c_height

\* C7 as stated: whenever the selection lies in the window,
\* calc_scroll_top returns current_top.
C7_MinimalMovementAlways ==
    SelectionInWindow => c_out = c_top

\* C7 amended: whenever the selection lies in the window and the content does
\* not fit the window (selection_max > visible_height), calc_scroll_top
\* returns current_top; content that fits makes it return 0.
C7_MinimalMovement ==
    SelectionInWindow =>
        c_out = (IF c_max > c_height THEN c_top ELSE 0)

\* a scrolled window that holds the selection in its last line and is kept
C7_Witness ==
    /\ SelectionInWindow
    /\ c_max > c_height
    /\ c_top > 0
    /\ c_sel = c_top + c_height - 1
    /\ c_out = c_top

\* C8: with height > 0 and selection_max > height, a selection below the
\* window becomes its last line (selection - height + 1) and a selection above
\* the window becomes its first line (selection).
C8_FollowSelection ==
    (c_pc = "returned" /\ c_height > 0 /\ c_max > c_height) =>
        /\ c_top + c_height <= c_sel => c_out = c_sel - c_height + 1
        /\ c_top > c_sel => c_out = c_sel
        /\ (c_top = 0 /\ c_height = 10 /\ c_sel = 45 /\ c_max = 100) => c_out = 36

\* Scenario B reached through Scenario A: top 36 and selection 5 give 5
C8_Witness ==
    /\ c_pc = "returned"
    /\ c_top = 36
    /\ c_height = 10
    /\ c_sel = 5
    /\ c_max = 100
    /\ c_out = 5

\* C9: Home and End are idempotent, Up at 0 and Down at max_top change
\* nothing and return false, and move_top returns true exactly when top
\* changed.
C9_MoveTopIdempotent ==
    vs_last.op = "move_top" =>
        /\ max_top = vs_last.pre_max
        /\ vs_last.ret = <<top # vs_last.pre_top>>
        /\ (vs_last.arg \in {<<"Home">>, <<"End">>} /\ vs_last.before = vs_last.arg)
               => (top = vs_last.pre_top /\ vs_last.ret = <<FALSE>>)
        /\ (vs_last.arg = <<"Up">> /\ vs_last.pre_top = 0)
               => (top = 0 /\ vs_last.ret = <<FALSE>>)
        /\ (vs_last.arg = <<"Down">> /\ vs_last.pre_top = vs_last.pre_max)
               => (top = vs_last.pre_top /\ vs_last.ret = <<FALSE>>)

\* a second move_top(End) in a row on scrollable content
C9_Witness ==
    /\ vs_last.op = "move_top"
    /\ vs_last.arg = <<"End">>
    /\ vs_last.before = <<"End">>
    /\ max_top > 0
    /\ top = max_top
    /\ vs_last.ret = <<FALSE>>

\* C10: move_top(PageDown) moves top forward by a page clamped to max_top and
\* move_top(PageUp) moves it back clamped to 0; from top = 0 with max_top > 0
\* PageDown changes top and returns true, and PageUp from top = max_top > 0
\* does the same.
C10_PageMoves ==
    vs_last.op = "move_top" =>
        /\ (vs_last.arg = <<"PageDown">> /\ vs_last.pre_top = 0
                /\ vs_last.pre_max > 0)
               => (top > 0 /\ top <= max_top /\ vs_last.ret = <<TRUE>>)
        /\ (vs_last.arg = <<"PageUp">> /\ vs_last.pre_top = vs_last.pre_max
                /\ vs_last.pre_max > 0)
               => (top < vs_last.pre_top /\ vs_last.ret = <<TRUE>>)

\* a move_area_to_visible(height, start, end) has run
AreaMoved == vs_last.op = "move_area_to_visible"
AreaHeight == vs_last.arg[1]
AreaStart == vs_last.arg[2]
AreaEnd == vs_last.arg[3]

\* C11: move_area_to_visible sets top to start when start < top; else, when
\* end > top + height and start > top, to
\* min(max_top, top + min(start - top, end - (top + height))); else it leaves
\* top alone. It never modifies max_top.
C11_MoveAreaRule ==
    AreaMoved =>
        /\ max_top = vs_last.pre_max
        /\ top = (IF AreaStart < vs_last.pre_top THEN AreaStart
                  ELSE IF /\ AreaEnd > vs_last.pre_top + AreaHeight
                          /\ AreaStart > vs_last.pre_top
                       THEN Min(vs_last.pre_max,
                                vs_last.pre_top
                                  + Min(AreaStart - vs_last.pre_top,
                                        AreaEnd - (vs_last.pre_top + AreaHeight)))
                  ELSE vs_last.pre_top)

\* a scroll down that the clamp to max_top cut short
C11_Witness ==
    /\ AreaMoved
    /\ AreaStart > vs_last.pre_top
    /\ AreaEnd > vs_last.pre_top + AreaHeight
    /\ vs_last.pre_top + Min(AreaStart - vs_last.pre_top,
                             AreaEnd - (vs_last.pre_top + AreaHeight)) > max_top
    /\ top > vs_last.pre_top
    /\ top = max_top

\* Scenario C has run: top = 0, max_top = 20,
\* move_area_to_visible(height = 5, start = 2, end = 9)
ScenarioC ==
    /\ AreaMoved
    /\ vs_last.arg = <<5, 2, 9>>
    /\ vs_last.pre_top = 0
    /\ vs_last.pre_max = 20

\* C12 as stated: Scenario C leaves top unchanged at 0.
C12_ScenarioCNoScroll ==
    ScenarioC => top = 0

\* C12 amended: in Scenario C the end (9) is below the window (5) and the
\* start (2) is below top (0), so top advances by min(2 - 0, 9 - 5) = 2: the
\* start of the range becomes the first visible line.
C12_ScenarioCScrollsToStart ==
    ScenarioC => (top = 2 /\ max_top = 20)

C12_Witness ==
    /\ ScenarioC
    /\ top = 2

\* a show_error / show_key_bindings has run
PopupShown == popup_last.op \in {"show_error", "show_key_bindings"}

\* C13: every show stores the new title and body, sets the scroll top to 0
\* and sets visible = true, whatever happened before.
C13_ShowResetsScroll ==
    PopupShown =>
        /\ title = (IF popup_last.op = "show_error"
                    THEN "Error" ELSE "Keybindings")
        /\ msg = popup_last.arg[1]
        /\ scroll_top = 0
        /\ visible

\* a second show of a popup that was scrolled and then hidden
C13_Witness ==
    /\ PopupShown
    /\ popup_last.pre_top > 0
    /\ ~popup_last.pre_visible
    /\ scroll_top = 0
    /\ visible

\* C14: while the popup is hidden no event changes visible, title, body, top
\* or max_top; while it is visible the enter key only sets visible = false,
\* the popup down / up keys only apply move_top(Down) / move_top(Up), and any
\* other event changes nothing.
C14_EventGated ==
    [][popup_last'.op = "event" =>
          /\ UNCHANGED <<title, msg, scroll_max_top>>
          /\ ~visible => UNCHANGED <<visible, scroll_top>>
          /\ (visible /\ popup_last'.arg = <<"enter">>) =>
                 (~visible' /\ scroll_top' = scroll_top)
          /\ (visible /\ popup_last'.arg = <<"popup_down">>) =>
                 (visible' /\ scroll_top' = Min(scroll_top + 1, scroll_max_top))
          /\ (visible /\ popup_last'.arg = <<"popup_up">>) =>
                 (visible' /\ scroll_top' =
                                 Min(Max(scroll_top - 1, 0), scroll_max_top))
          /\ (visible /\ popup_last'.arg \in {<<"other_key">>, <<"not_key">>}) =>
                 UNCHANGED <<visible, scroll_top>>
    ]_vars

\* a down key that reached a hidden popup with room to scroll and did nothing
C14_Witness ==
    /\ popup_last.op = "event"
    /\ popup_last.arg = <<"popup_down">>
    /\ ~popup_last.pre_visible
    /\ ~visible
    /\ scroll_top < scroll_max_top
    /\ scroll_top = popup_last.pre_top

\* C15: the details scroll offset is 0 right after every operation that
\* changes which entity is selected: select_next_row, select_previous_row and
\* update_process_table_number_of_items.
C15_OffsetResetOnSelectionChange ==
    (/\ tui_last.op \in {"select_next_row", "select_previous_row",
                         "update_process_table_number_of_items"}
     /\ ~aborted) =>
        process_details_scroll_offset = 0

\* a render of the details pane over a content width >= 1 has completed
DetailsRendered ==
    /\ tui_last.op = "render_ui"
    /\ ~aborted
    /\ tui_last.arg[1] - DetailsBorder >= 1
RenderContentWidth == tui_last.arg[1] - DetailsBorder
RenderArgsChars == tui_last.arg[3]

\* C16 as stated: line_count = 1 when nothing is selected, otherwise
\* ceil(character_count / content_width) + 2.
C16_LineCountCeil ==
    DetailsRendered =>
        process_details_number_of_lines =
            (IF IsSome(process_table_selected)
             THEN ((RenderArgsChars + RenderContentWidth - 1)
                       \div RenderContentWidth) + 2
             ELSE 1)

\* C16 amended: line_count = 1 when nothing is selected, otherwise
\* floor(character_count / content_width) + 1 + 2, which is one more than
\* ceil(character_count / content_width) + 2 when the count is 0 or an exact
\* multiple of the width.
C16_LineCountFloor ==
    DetailsRendered =>
        process_details_number_of_lines =
            (IF IsSome(process_table_selected)
             THEN (RenderArgsChars \div RenderContentWidth) + 3
             ELSE 1)

\* a render of a selected process whose args fill whole lines exactly
C16_Witness ==
    /\ DetailsRendered
    /\ IsSome(process_table_selected)
    /\ RenderArgsChars > 0
    /\ RenderArgsChars % RenderContentWidth = 0
    /\ process_details_number_of_lines =
           (RenderArgsChars \div RenderContentWidth) + 3

\* C17: no operation aborts: no unsigned subtraction underflows and no
\* division by a zero content width occurs, whatever the area sizes are.
C17_Total == ~aborted

\* C18: after every render of the details pane,
\* scroll_offset <= max(0, line_count - visible_height), where
\* visible_height is the area height less the two border rows.
C18_OffsetSelfCorrects ==
    (tui_last.op = "render_ui" /\ ~aborted) =>
        process_details_scroll_offset <=
            Max(0, process_details_number_of_lines
                     - Max(0, tui_last.arg[2] - DetailsBorder))

\* an update(selection, selection_max, visual_height) with a visible height
\* and a selection inside the content has run
UpdateSelection == vs_last.arg[1]
UpdateActed ==
    /\ vs_last.op = "update"
    /\ vs_last.arg[3] > 0
    /\ vs_last.arg[1] < vs_last.arg[2]

\* C19: after update(selection, selection_max, visual_height) with
\* visual_height > 0 and selection < selection_max, from any prior top,
\* top <= selection < top + visual_height.
C19_SelectionVisible ==
    UpdateActed =>
        /\ top <= UpdateSelection
        /\ UpdateSelection < top + vs_last.arg[3]

\* an update that scrolled up to a selection above the window
C19_Witness ==
    /\ UpdateActed
    /\ vs_last.pre_top > UpdateSelection
    /\ vs_last.arg[2] > vs_last.arg[3]
    /\ top = UpdateSelection

\* max(0, selection_max - visual_height) of the fixed content and height
FixedBound == Max(0, fixed[1] - fixed[2])

\* C20: while every update is handed the same content length and visible
\* height (and a selection inside the content), any sequence of update,
\* update_no_selection, move_top, reset and move_area_to_visible started from
\* top = 0 keeps top <= max(0, selection_max - visual_height).
C20_TopWithinFixedBound ==
    top <= FixedBound

\* a move_top(Down) at the bound of scrollable content, which stays there
C20_Witness ==
    /\ vs_last.op = "move_top"
    /\ vs_last.arg = <<"Down">>
    /\ FixedBound > 0
    /\ vs_last.pre_top = FixedBound
    /\ top = FixedBound

\* a move_area_to_visible has run from a state with top <= max_top
AreaMovedWithinBounds ==
    /\ AreaMoved
    /\ vs_last.pre_top <= vs_last.pre_max

\* the range fits the window and ends within the last window
AreaFits ==
    /\ AreaStart <= AreaEnd
    /\ AreaEnd - AreaStart <= AreaHeight
    /\ AreaEnd <= vs_last.pre_max + AreaHeight

\* C21: after move_area_to_visible(height, start, end) from a state with
\* top <= max_top, top <= start; and when the range fits (start <= end,
\* end - start <= height) and end <= max_top + height, the whole range is
\* visible: top <= start and end <= top + height.
C21_AreaVisible ==
    AreaMovedWithinBounds =>
        /\ top <= AreaStart
        /\ AreaFits => (top <= AreaStart /\ AreaEnd <= top + AreaHeight)

\* a fitting range below the window that the scroll down brought into view
C21_Witness ==
    /\ AreaMovedWithinBounds
    /\ AreaFits
    /\ AreaEnd > vs_last.pre_top + AreaHeight
    /\ AreaStart > vs_last.pre_top
    /\ top > vs_last.pre_top
    /\ top <= AreaStart
    /\ AreaEnd <= top + AreaHeight

\* C22: in every state reachable by update / update_no_selection, reset and
\* move_top calls, move_top(Down) never decreases top, move_top(Up) never
\* increases top, and each changes top by at most 1.
C22_DirectionMonotone ==
    vs_last.op = "move_top" =>
        /\ vs_last.arg = <<"Down">> =>
               (top >= vs_last.pre_top /\ top - vs_last.pre_top <= 1)
        /\ vs_last.arg = <<"Up">> =>
               (top <= vs_last.pre_top /\ vs_last.pre_top - top <= 1)

\* the popup is visible and a draw has laid it out
PopupLaidOut == visible /\ popup_last.frame # <<>>

\* max(0, wrapped line count of the stored body - visible height), both taken
\* over the frame of the last draw
PopupBound ==
    Max(0, popup_line_num(msg, popup_last.frame[1])
             - popup_height(popup_last.frame[2]))

\* C23: while the popup is visible, under any interleaving of shows, key
\* events and draws, the scroll top never exceeds
\* max(0, wrapped line count of the stored body - visible height); a Down key
\* after a show and before the next draw cannot scroll by the max_top of the
\* message shown before.
C23_PopupTopWithinBody ==
    PopupLaidOut => scroll_top <= PopupBound

\* C24: the scrollbar position of the process table equals the selected row
\* index, and 0 when nothing is selected, in every state reachable by
\* select_next_row, select_previous_row and
\* update_process_table_number_of_items.
C24_ScrollbarFollowsSelection ==
    ~aborted =>
        process_table_scroll_position = unwrap_or(process_table_selected, 0)

====
